---- MODULE Spec2Model ----
(***************************************************************************)
(* UTF-C (go/utfc.go): the stateful encoder Encode and decoder Decode.     *)
(* One behaviour is one call of Encode on a string followed by one call of *)
(* Decode on the bytes it returned (Spec), or one call of Decode on an     *)
(* arbitrary byte slice (SpecDecode).                                      *)
(***************************************************************************)
EXTENDS Integers, Sequences, FiniteSets, TLC

(***************************************************************************)
(* Bounds of the model.                                                    *)
(***************************************************************************)
\* longest enumerated input string, in codepoints
MaxLen == 2
\* longest enumerated raw byte slice handed to Decode
MaxBytes == 4
\* number of calls of Encode and Decode that run concurrently
NumCalls == 2
\* longest byte slice of the runs checked for termination
MaxFairBytes == 3

(***************************************************************************)
(* Go's integer operators on non-negative ints.                            *)
(***************************************************************************)
RECURSIVE BitAnd(_, _)
BitAnd(a, b) ==
    IF a = 0 \/ b = 0 THEN 0
    ELSE 2 * BitAnd(a \div 2, b \div 2) + (IF a % 2 = 1 /\ b % 2 = 1 THEN 1 ELSE 0)

RECURSIVE BitOr(_, _)
BitOr(a, b) ==
    IF a = 0 THEN b
    ELSE IF b = 0 THEN a
    ELSE 2 * BitOr(a \div 2, b \div 2) + (IF a % 2 = 1 \/ b % 2 = 1 THEN 1 ELSE 0)

RECURSIVE BitXor(_, _)
BitXor(a, b) ==
    IF a = 0 THEN b
    ELSE IF b = 0 THEN a
    ELSE 2 * BitXor(a \div 2, b \div 2) + (IF (a % 2) # (b % 2) THEN 1 ELSE 0)

ShiftR(a, n) == a \div (2 ^ n)

ShiftL(a, n) == a * (2 ^ n)

\* the conversion byte(x): the low eight bits
Byte(x) == x % 256

(***************************************************************************)
(* Constants of go/utfc.go.                                                *)
(***************************************************************************)
maxLatinCp == 767

min21BitCp == 10240

\* 0xFFFFFF80 and 0xFFFF8000 on the 31 value bits of the model's integers:
\* faulty variant: a mask that clears the low 8 bits
offsMask13Bit_Low8 == 2147483647 - 255

\* every operand of the masks is a codepoint, below 2^22
offsMask13Bit == 2147483520

\* faulty variant: a mask that clears the low 11 bits only
offsMask21Bit_Low11 == 2147483647 - 2047

offsMask21Bit == 2147450880

markerAux == 192

marker13Bit == 128

marker21Bit == 160

\* faulty variant: the marker of EXTRA taken for that of the 21-bit switch
markerExtra_Shift21 == marker21Bit

markerExtra == 176

offsInitAux == 192

\* the keys and values of the map auxOffset
auxOffsetKeys ==
    { 128, 896, 1024, 1408, 1328, 1536, 2304, 2432, 2560, 2688, 2816, 2944,
      3200, 3328, 3456, 3584, 3712, 3840, 3968, 4224, 12288 }

auxOffset(k) ==
    CASE k = 128   -> offsInitAux
      [] k = 896   -> 913
      [] k = 1024  -> 1040
      [] k = 1408  -> 1470
      [] k = 1328  -> 1329
      [] k = 1536  -> 1547
      [] k = 2304  -> 2317
      [] k = 2432  -> 2447
      [] k = 2560  -> 2562
      [] k = 2688  -> 2703
      [] k = 2816  -> 2831
      [] k = 2944  -> 2958
      [] k = 3200  -> 3214
      [] k = 3328  -> 3342
      [] k = 3456  -> 3483
      [] k = 3584  -> 3585
      [] k = 3712  -> 3713
      [] k = 3840  -> 3904
      [] k = 3968  -> 3984
      [] k = 4224  -> 4272
      [] k = 12288 -> 12352

\* faulty variant: General Punctuation counted with Hiragana/Katakana
rangeHK_Wide == <<8192, 12544>>

rangeHK == <<12288, 12544>>

\* faulty variant: the digits before the letters
rangesLatin_DigitsFirst ==
    << <<48, 58>>, <<65, 91>>, <<97, 123>>, <<32, 33>>, <<45, 44>> >>

\* faulty variant: a last range that holds the hyphen
rangesLatin_WithHyphen ==
    << <<65, 91>>, <<97, 123>>, <<48, 58>>, <<32, 33>>, <<45, 46>> >>

rangesLatin == << <<65, 91>>, <<97, 123>>, <<48, 58>>, <<32, 33>>, <<45, 44>> >>

\* faulty variant: a first range that starts at U+2100
rangesExtra_LatePunctuation ==
    << <<8448, 10240>>, rangeHK, <<65024, 65040>>,
       <<127344, 127488>>, <<127744, 128768>>, <<129280, 129536>> >>

rangesExtra ==
    << <<8192, 10240>>, rangeHK, <<65024, 65040>>,
       <<127344, 127488>>, <<127744, 128768>>, <<129280, 129536>> >>

(***************************************************************************)
(* The range helpers.                                                      *)
(***************************************************************************)
inRanges(cp, ranges) ==
    \E k \in 1..Len(ranges) : ranges[k][1] <= cp /\ cp < ranges[k][2]

RECURSIVE encodeRangesFrom(_, _, _, _)
encodeRangesFrom(cp, ranges, k, v) ==
    IF k > Len(ranges) THEN -1
    ELSE IF ranges[k][1] <= cp /\ cp < ranges[k][2] THEN v + (cp - ranges[k][1])
    ELSE encodeRangesFrom(cp, ranges, k + 1, v + (ranges[k][2] - ranges[k][1]))

encodeRanges(cp, ranges) == encodeRangesFrom(cp, ranges, 1, 0)

RECURSIVE decodeRangesFrom(_, _, _)
decodeRangesFrom(v, ranges, k) ==
    IF k > Len(ranges) THEN -1
    ELSE IF v < ranges[k][2] - ranges[k][1] THEN ranges[k][1] + v
    ELSE decodeRangesFrom(v - (ranges[k][2] - ranges[k][1]), ranges, k + 1)

\* faulty variant: the search starts at the second range
decodeRanges_SkipFirst(v, ranges) == decodeRangesFrom(v, ranges, 2)

decodeRanges(v, ranges) == decodeRangesFrom(v, ranges, 1)

\* faulty variant: Latin-1 Supplement stays the auxiliary alphabet of Latin
getAuxOffset_LatinSupplement(o) ==
    IF o = 0 THEN offsInitAux ELSE IF o \in auxOffsetKeys THEN auxOffset(o) ELSE o

getAuxOffset(o) == IF o \in auxOffsetKeys THEN auxOffset(o) ELSE o

(***************************************************************************)
(* Strings.  A Go string ranged over by Encode is modelled by the sequence *)
(* of its codepoints; string(rune(cp)) yields U+FFFD for every value that  *)
(* is no Unicode scalar value.                                             *)
(***************************************************************************)
IsScalar(cp) == (0 <= cp /\ cp <= 55295) \/ (57344 <= cp /\ cp <= 1114111)

RuneError == 65533

RuneToString(cp) == IF IsScalar(cp) THEN cp ELSE RuneError

\* faulty variant: a switch of alphabet overwrites the byte before it
AppendBytes_Overwrite(b, bs) ==
    IF Len(bs) > 1 /\ Len(b) > 0 THEN SubSeq(b, 1, Len(b) - 1) \o bs ELSE b \o bs

\* append(buf, bs...)
AppendBytes(b, bs) == b \o bs

(***************************************************************************)
(* The byte sequences of the coding variants, as Encode appends them.      *)
(***************************************************************************)
\* faulty variant: the Latin character as its own byte
auxLatinBytes_Ascii(cp) == << Byte(cp) >>

\* line 112: the auxiliary alphabet is Latin
auxLatinBytes(cp) == << Byte(BitOr(markerAux, encodeRanges(cp, rangesLatin))) >>

\* faulty variant: the auxiliary byte without its marker bits
auxBytes_NoMarker(a, cp) == << Byte(cp - a) >>

\* line 115: the auxiliary alphabet starts at a
auxBytes(a, cp) == << Byte(BitOr(markerAux, cp - a)) >>

\* faulty variant: the base byte cut to six bits
baseBytes_SixBits(cp) == << Byte(BitAnd(cp, 63)) >>

\* lines 122 and 151: one byte in the current 13-bit alphabet
baseBytes(cp) == << Byte(BitAnd(cp, 127)) >>

\* faulty variant: the leading byte without the 1 added to the high bits
extraBytes_NoPlusOne(cp) ==
    LET extra == encodeRanges(cp, rangesExtra)
    IN  << Byte(BitOr(markerExtra, ShiftR(extra, 8))), Byte(extra) >>

\* lines 125-126: two bytes, the index in the extra ranges
extraBytes(cp) ==
    LET extra == encodeRanges(cp, rangesExtra)
    IN  << Byte(BitOr(markerExtra, 1 + ShiftR(extra, 8))), Byte(extra) >>

\* line 141: two bytes in the current 21-bit alphabet (c is cp - min21BitCp)
base21Bytes(c) == << Byte(BitAnd(ShiftR(c, 8), 127)), Byte(c) >>

\* faulty variant: the 21-bit switch with a marker byte of its own
shift21Bytes_FourBytes(c) ==
    << marker21Bit, Byte(ShiftR(c, 16)), Byte(ShiftR(c, 8)), Byte(c) >>

\* line 143: three bytes, switching to a 21-bit alphabet (c is cp - min21BitCp)
shift21Bytes(c) ==
    << Byte(BitOr(marker21Bit, ShiftR(c, 16))), Byte(ShiftR(c, 8)), Byte(c) >>

\* faulty variant: seven bits in the second byte
shift13Bytes_SevenBits(cp) ==
    << Byte(BitOr(marker13Bit, ShiftR(cp, 7))), Byte(BitAnd(cp, 127)) >>

\* line 153: two bytes, switching to a 13-bit alphabet
shift13Bytes(cp) ==
    << Byte(BitOr(marker13Bit, ShiftR(cp, 8))), Byte(BitAnd(cp, 255)) >>

(***************************************************************************)
(* One iteration of the loop of Encode, for the codepoint cp in the state  *)
(* (o, a, m) = (offs, auxOffs, is21Bit): the bytes appended, the state     *)
(* after the iteration and the coding variant taken.                       *)
(***************************************************************************)
EncodeChar(o, a, m, cp) ==
    IF a = 0 /\ inRanges(cp, rangesLatin) THEN
        [bytes |-> auxLatinBytes(cp),
         offs |-> o, auxOffs |-> a, is21Bit |-> m, variant |-> "AUXLATIN"]
    ELSE IF a # 0 /\ cp >= a /\ cp <= a + 63 THEN
        [bytes |-> auxBytes(a, cp),
         offs |-> o, auxOffs |-> a, is21Bit |-> m, variant |-> "AUX"]
    ELSE IF inRanges(cp, rangesExtra) THEN
        LET newOffs == BitAnd(cp, offsMask13Bit) IN
        IF ~m /\ newOffs = o THEN
            [bytes |-> baseBytes(cp),
             offs |-> o, auxOffs |-> a, is21Bit |-> m, variant |-> "BASE"]
        ELSE IF cp >= rangeHK[1] /\ cp < rangeHK[2] THEN
            [bytes |-> extraBytes(cp),
             offs |-> newOffs, auxOffs |-> getAuxOffset(o), is21Bit |-> FALSE,
             variant |-> "EXTRAHK"]
        ELSE
            [bytes |-> extraBytes(cp),
             offs |-> o, auxOffs |-> a, is21Bit |-> m, variant |-> "EXTRA"]
    ELSE IF cp >= min21BitCp THEN
        LET c == cp - min21BitCp
            newOffs == BitAnd(c, offsMask21Bit)
        IN  IF m /\ newOffs = o THEN
                [bytes |-> base21Bytes(c),
                 offs |-> o, auxOffs |-> a, is21Bit |-> m, variant |-> "BASE21"]
            ELSE
                [bytes |-> shift21Bytes(c),
                 offs |-> newOffs, auxOffs |-> o, is21Bit |-> TRUE,
                 variant |-> "SHIFT21"]
    ELSE
        LET newOffs == BitAnd(cp, offsMask13Bit) IN
        IF ~m /\ newOffs = o THEN
            [bytes |-> baseBytes(cp),
             offs |-> o, auxOffs |-> a, is21Bit |-> m, variant |-> "BASE"]
        ELSE
            [bytes |-> shift13Bytes(cp),
             offs |-> IF cp <= maxLatinCp THEN 0 ELSE newOffs,
             auxOffs |-> getAuxOffset(o), is21Bit |-> FALSE, variant |-> "SHIFT13"]

(***************************************************************************)
(* One iteration of the loop of Decode, for the leading byte at the        *)
(* (0-based) index i of b in the state (o, a, m).  An index expression     *)
(* b[j] with j >= len(b) panics (index out of range): the iteration ends   *)
(* there, before any assignment, and the call does not return.             *)
(***************************************************************************)
OutOfRange == -1

\* faulty variant: a read past the end yields zero instead of a panic
At_ZeroPastEnd(b, j) == IF j < Len(b) THEN b[j + 1] ELSE 0

\* int(buf[j]), or the panic
At(b, j) == IF j < Len(b) THEN b[j + 1] ELSE OutOfRange

Panicked(o, a, m, i) ==
    [panic |-> TRUE, cp |-> -1, i |-> i + 1,
     offs |-> o, auxOffs |-> a, is21Bit |-> m, variant |-> "PANIC"]

DecodeChar(o, a, m, b, i) ==
    LET lead == At(b, i) IN
    IF BitAnd(lead, markerAux) = markerAux THEN
        [panic |-> FALSE,
         cp |-> IF a = 0 THEN decodeRanges(BitXor(lead, markerAux), rangesLatin)
                ELSE a + BitXor(lead, markerAux),
         i |-> i + 1, offs |-> o, auxOffs |-> a, is21Bit |-> m, variant |-> "AUX"]
    ELSE IF BitAnd(lead, markerExtra) = markerExtra THEN
        LET b1 == At(b, i + 1)
            cp == decodeRanges(BitOr(ShiftL(BitXor(lead, markerExtra), 8), b1),
                               rangesExtra)
        IN  IF b1 = OutOfRange THEN Panicked(o, a, m, i)
            ELSE IF cp >= rangeHK[1] /\ cp < rangeHK[2] THEN
                [panic |-> FALSE, cp |-> cp, i |-> i + 2,
                 offs |-> BitAnd(cp, offsMask13Bit), auxOffs |-> getAuxOffset(o),
                 is21Bit |-> FALSE, variant |-> "EXTRAHK"]
            ELSE
                [panic |-> FALSE, cp |-> cp, i |-> i + 2,
                 offs |-> o, auxOffs |-> a, is21Bit |-> m, variant |-> "EXTRA"]
    ELSE IF BitAnd(lead, marker21Bit) = marker21Bit THEN
        LET b1 == At(b, i + 1)
            b2 == At(b, i + 2)
            cp == BitOr(BitOr(ShiftL(BitXor(lead, marker21Bit), 16), ShiftL(b1, 8)), b2)
        IN  IF b1 = OutOfRange \/ b2 = OutOfRange THEN Panicked(o, a, m, i)
            ELSE
                [panic |-> FALSE, cp |-> cp + min21BitCp, i |-> i + 3,
                 offs |-> BitAnd(cp, offsMask21Bit), auxOffs |-> o, is21Bit |-> TRUE,
                 variant |-> "SHIFT21"]
    ELSE IF BitAnd(lead, marker13Bit) = marker13Bit THEN
        LET b1 == At(b, i + 1)
            cp == BitOr(ShiftL(BitXor(lead, marker13Bit), 8), b1)
        IN  IF b1 = OutOfRange THEN Panicked(o, a, m, i)
            ELSE
                [panic |-> FALSE, cp |-> cp, i |-> i + 2,
                 offs |-> IF cp <= maxLatinCp THEN 0 ELSE BitAnd(cp, offsMask13Bit),
                 auxOffs |-> getAuxOffset(o), is21Bit |-> FALSE, variant |-> "SHIFT13"]
    ELSE IF m THEN
        LET b1 == At(b, i + 1)
        IN  IF b1 = OutOfRange THEN Panicked(o, a, m, i)
            ELSE
                [panic |-> FALSE,
                 cp |-> min21BitCp + BitOr(BitOr(o, ShiftL(lead, 8)), b1),
                 i |-> i + 2, offs |-> o, auxOffs |-> a, is21Bit |-> m,
                 variant |-> "BASE21"]
    ELSE
        [panic |-> FALSE, cp |-> BitOr(o, lead),
         i |-> i + 1, offs |-> o, auxOffs |-> a, is21Bit |-> m, variant |-> "BASE"]

(***************************************************************************)
(* Encode as a function of its input: the fold of EncodeChar over the      *)
(* codepoints of s from the initial state.                                 *)
(***************************************************************************)
EncodeInit == [buf |-> << >>, offs |-> 0, auxOffs |-> offsInitAux, is21Bit |-> FALSE]

RECURSIVE EncodeFold(_, _)
EncodeFold(st, s) ==
    IF s = << >> THEN st
    ELSE LET r == EncodeChar(st.offs, st.auxOffs, st.is21Bit, Head(s))
         IN  EncodeFold([buf |-> AppendBytes(st.buf, r.bytes), offs |-> r.offs,
                         auxOffs |-> r.auxOffs, is21Bit |-> r.is21Bit], Tail(s))

Encode(s) == EncodeFold(EncodeInit, s).buf

(***************************************************************************)
(* Decode as a function of its input: the fold of DecodeChar over the      *)
(* bytes of b from the initial state, stopping at the first panic.         *)
(***************************************************************************)
DecodeInit ==
    [panic |-> FALSE, i |-> 0, offs |-> 0, auxOffs |-> offsInitAux,
     is21Bit |-> FALSE, str |-> << >>]

RECURSIVE DecodeFold(_, _)
DecodeFold(st, b) ==
    IF st.i >= Len(b) THEN st
    ELSE LET r == DecodeChar(st.offs, st.auxOffs, st.is21Bit, b, st.i)
         IN  IF r.panic THEN [st EXCEPT !.panic = TRUE]
             ELSE DecodeFold([panic |-> FALSE, i |-> r.i, offs |-> r.offs,
                              auxOffs |-> r.auxOffs, is21Bit |-> r.is21Bit,
                              str |-> Append(st.str, RuneToString(r.cp))], b)

Decode(b) == DecodeFold(DecodeInit, b)

(***************************************************************************)
(* The inputs of the model.                                                *)
(***************************************************************************)
\* codepoints of every class the encoder distinguishes, with the boundaries
Codepoints ==
    { 0, 33, 45, 32, 65, 122, 127,              \* ASCII: NUL ! - space A z DEL
      128, 192, 233, 255, 767,                   \* Latin-1 and extended Latin
      1055, 1088, 8191,                          \* 13-bit: U+041F U+0440 U+1FFF
      8192, 10239, 12371, 12435, 65039,          \* extra ranges
      128512, 129376,                            \* U+1F600 U+1F960
      10240, 55295, 59327, 65536,                \* 21-bit: U+2800 U+D7FF U+E7BF U+10000
      1058816, 1114111 }                         \* U+102800 U+10FFFF

RECURSIVE SeqsUpTo(_, _)
SeqsUpTo(S, n) ==
    IF n = 0 THEN { << >> }
    ELSE LET P == SeqsUpTo(S, n - 1)
         IN  P \cup { Append(p, x) : p \in { q \in P : Len(q) = n - 1 }, x \in S }

\* "Hello World!" and the other strings the documentation encodes
Scenarios ==
    { << 72, 101, 108, 108, 111, 32, 87, 111, 114, 108, 100, 33 >>,
      << 1055, 1088, 1080, 1074, 1077, 1090 >>,
      << 12371, 12435, 12395, 12385, 12399 >>,
      << 128512 >>, << 65536 >>, << 97, 233 >>,
      \* a Cyrillic letter, then A Z a z 0 9 and space
      << 1055, 65, 90, 97, 122, 48, 57, 32 >>,
      \* an ASCII letter after a Cyrillic letter, in each state the
      \* Cyrillic letter can leave behind
      << 8191, 1055, 65 >>, << 1055, 33, 1088, 65 >>, << 1055, 33, 1024, 65 >> }

Inputs == SeqsUpTo(Codepoints, MaxLen) \cup Scenarios

\* leading and continuation bytes of every variant
RawBytes == { 0, 65, 132, 160, 176, 177, 191, 192, 255 }

RawInputs == SeqsUpTo(RawBytes, MaxBytes)

\* a leading byte of every variant, for the runs checked for termination
FairBytes == { 65, 132, 160, 177, 192 }

FairInputs == SeqsUpTo(FairBytes, MaxFairBytes)

\* the arguments of the concurrent calls: strings that switch alphabets in
\* each way, and byte slices of every variant, one of them truncated
ConcurrentStrings ==
    { << 1055, 65 >>, << 65536, 10240 >>, << 12371, 12435 >>, << 97, 233 >>,
      << 8192 >> }

ConcurrentBytes ==
    { << 132, 31, 192 >>, << 160, 216, 0, 0, 0 >>, << 185, 83, 83 >>,
      << 255 >>, << 65, 176 >> }

(***************************************************************************)
(* The state: the locals of the call of Encode (str, pos, offs, auxOffs,   *)
(* is21Bit, buf), the locals of the call of Decode (i, dCp, dOffs,         *)
(* dAuxOffs, dIs21Bit, out; its argument is buf; dCp is cp at the end of   *)
(* the last iteration), the variant of the last iteration of either loop,  *)
(* and the position of the program.                                        *)
(***************************************************************************)
VARIABLES pc, str, pos, offs, auxOffs, is21Bit, buf, variant,
          i, dCp, dOffs, dAuxOffs, dIs21Bit, out, dVariant,
          calls, frames

vars == << pc, str, pos, offs, auxOffs, is21Bit, buf, variant,
           i, dCp, dOffs, dAuxOffs, dIs21Bit, out, dVariant, calls, frames >>

\* the concurrent calls (their arguments, progress and results) and the
\* storage of their offs, auxOffs and is21Bit
concVars == << calls, frames >>

encVars == << str, pos, offs, auxOffs, is21Bit, buf, variant >>

decVars == << i, dCp, dOffs, dAuxOffs, dIs21Bit, out, dVariant >>

DecodeEntry ==
    /\ i = 0
    /\ dCp = 0
    /\ dOffs = 0
    /\ dAuxOffs = offsInitAux
    /\ dIs21Bit = FALSE
    /\ out = << >>
    /\ dVariant = "NONE"

Init ==
    /\ pc = "Encode"
    /\ str \in Inputs
    /\ pos = 1
    /\ offs = 0
    /\ auxOffs = offsInitAux
    /\ is21Bit = FALSE
    /\ buf = << >>
    /\ variant = "NONE"
    /\ DecodeEntry
    /\ calls = << >>
    /\ frames = << >>

\* Decode called on an arbitrary byte slice
InitDecode ==
    /\ pc = "Decode"
    /\ str = << >>
    /\ pos = 1
    /\ offs = 0
    /\ auxOffs = offsInitAux
    /\ is21Bit = FALSE
    /\ buf \in RawInputs
    /\ variant = "NONE"
    /\ DecodeEntry
    /\ calls = << >>
    /\ frames = << >>

\* faulty variant: an iteration that never assigns is21Bit
EncodeLoop_KeepMode ==
    /\ pc = "Encode"
    /\ pos <= Len(str)
    /\ LET r == EncodeChar(offs, auxOffs, is21Bit, str[pos])
       IN  /\ buf' = AppendBytes(buf, r.bytes)
           /\ offs' = r.offs
           /\ auxOffs' = r.auxOffs
           /\ variant' = r.variant
    /\ pos' = pos + 1
    /\ UNCHANGED << pc, str, is21Bit, decVars, concVars >>

\* one iteration of `for _, ch := range str`
EncodeLoop ==
    /\ pc = "Encode"
    /\ pos <= Len(str)
    /\ LET r == EncodeChar(offs, auxOffs, is21Bit, str[pos])
       IN  /\ buf' = AppendBytes(buf, r.bytes)
           /\ offs' = r.offs
           /\ auxOffs' = r.auxOffs
           /\ is21Bit' = r.is21Bit
           /\ variant' = r.variant
    /\ pos' = pos + 1
    /\ UNCHANGED << pc, str, decVars, concVars >>

\* `return buf`; the caller hands the bytes to Decode
EncodeReturn ==
    /\ pc = "Encode"
    /\ pos > Len(str)
    /\ pc' = "Decode"
    /\ UNCHANGED << encVars, decVars, concVars >>

\* one iteration of `for i < len(buf)` that reads inside the slice
DecodeLoop ==
    /\ pc = "Decode"
    /\ i < Len(buf)
    /\ LET r == DecodeChar(dOffs, dAuxOffs, dIs21Bit, buf, i)
       IN  /\ ~r.panic
           /\ i' = r.i
           /\ dCp' = r.cp
           /\ dOffs' = r.offs
           /\ dAuxOffs' = r.auxOffs
           /\ dIs21Bit' = r.is21Bit
           /\ out' = Append(out, RuneToString(r.cp))
           /\ dVariant' = r.variant
    /\ UNCHANGED << pc, encVars, concVars >>

\* an iteration that indexes buf past its end: the runtime panics
DecodePanic ==
    /\ pc = "Decode"
    /\ i < Len(buf)
    /\ DecodeChar(dOffs, dAuxOffs, dIs21Bit, buf, i).panic
    /\ pc' = "panic"
    /\ dVariant' = "PANIC"
    /\ UNCHANGED << encVars, i, dCp, dOffs, dAuxOffs, dIs21Bit, out, concVars >>

\* `return str`
DecodeReturn ==
    /\ pc = "Decode"
    /\ i >= Len(buf)
    /\ pc' = "done"
    /\ UNCHANGED << encVars, decVars, concVars >>

Next == EncodeLoop \/ EncodeReturn \/ DecodeLoop \/ DecodePanic \/ DecodeReturn

NextDecode == DecodeLoop \/ DecodePanic \/ DecodeReturn

Spec == Init /\ [][Next]_vars

SpecDecode == InitDecode /\ [][NextDecode]_vars

\* Decode called on a byte slice of the smaller set
InitFairDecode ==
    /\ pc = "Decode"
    /\ str = << >>
    /\ pos = 1
    /\ offs = 0
    /\ auxOffs = offsInitAux
    /\ is21Bit = FALSE
    /\ buf \in FairInputs
    /\ variant = "NONE"
    /\ DecodeEntry
    /\ calls = << >>
    /\ frames = << >>

\* a call of Decode has no suspension point: a step that can be taken is
\* taken
FairSpecDecode == InitFairDecode /\ [][NextDecode]_vars /\ WF_vars(NextDecode)

(***************************************************************************)
(* Concurrent calls.  Call c is Encode or Decode of its argument arg; n is *)
(* the number of codepoints (Encode) or bytes (Decode) its loop has        *)
(* consumed and res is the slice or string it builds.  One step is one     *)
(* iteration of the loop of one call; the steps of the calls interleave in *)
(* every order.  The tables the iterations read are package-level          *)
(* variables that no statement assigns: they are the definitions above.    *)
(***************************************************************************)
CallIds == 1..NumCalls

\* faulty variant: offs, auxOffs and is21Bit kept at package level
StateSlot_Global(c) == CHOOSE g \in CallIds : \A d \in CallIds : g <= d

\* the storage of the offs, auxOffs and is21Bit of call c: they are declared
\* in the body of Encode and of Decode, so each call has its own
StateSlot(c) == c

InitialState == [offs |-> 0, auxOffs |-> offsInitAux, is21Bit |-> FALSE]

InitConcurrent ==
    /\ pc = "Concurrent"
    /\ str = << >>
    /\ pos = 1
    /\ offs = 0
    /\ auxOffs = offsInitAux
    /\ is21Bit = FALSE
    /\ buf = << >>
    /\ variant = "NONE"
    /\ DecodeEntry
    /\ calls \in [CallIds ->
                    { [kind |-> "Encode", arg |-> s, n |-> 0, res |-> << >>, pc |-> "run"] :
                          s \in ConcurrentStrings }
                    \cup
                    { [kind |-> "Decode", arg |-> b, n |-> 0, res |-> << >>, pc |-> "run"] :
                          b \in ConcurrentBytes }]
    /\ frames = [c \in CallIds |-> InitialState]

\* one iteration of the loop of Encode in call c
CallEncodeLoop(c) ==
    /\ calls[c].kind = "Encode"
    /\ calls[c].pc = "run"
    /\ calls[c].n < Len(calls[c].arg)
    /\ LET f == frames[StateSlot(c)]
           r == EncodeChar(f.offs, f.auxOffs, f.is21Bit, calls[c].arg[calls[c].n + 1])
       IN  /\ calls' = [calls EXCEPT ![c].n = @ + 1,
                                     ![c].res = AppendBytes(@, r.bytes)]
           /\ frames' = [frames EXCEPT ![StateSlot(c)] =
                             [offs |-> r.offs, auxOffs |-> r.auxOffs,
                              is21Bit |-> r.is21Bit]]
    /\ UNCHANGED << pc, encVars, decVars >>

CallEncodeReturn(c) ==
    /\ calls[c].kind = "Encode"
    /\ calls[c].pc = "run"
    /\ calls[c].n >= Len(calls[c].arg)
    /\ calls' = [calls EXCEPT ![c].pc = "done"]
    /\ UNCHANGED << pc, encVars, decVars, frames >>

\* one iteration of the loop of Decode in call c
CallDecodeLoop(c) ==
    /\ calls[c].kind = "Decode"
    /\ calls[c].pc = "run"
    /\ calls[c].n < Len(calls[c].arg)
    /\ LET f == frames[StateSlot(c)]
           r == DecodeChar(f.offs, f.auxOffs, f.is21Bit, calls[c].arg, calls[c].n)
       IN  /\ ~r.panic
           /\ calls' = [calls EXCEPT ![c].n = r.i,
                                     ![c].res = Append(@, RuneToString(r.cp))]
           /\ frames' = [frames EXCEPT ![StateSlot(c)] =
                             [offs |-> r.offs, auxOffs |-> r.auxOffs,
                              is21Bit |-> r.is21Bit]]
    /\ UNCHANGED << pc, encVars, decVars >>

CallDecodePanic(c) ==
    /\ calls[c].kind = "Decode"
    /\ calls[c].pc = "run"
    /\ calls[c].n < Len(calls[c].arg)
    /\ LET f == frames[StateSlot(c)]
       IN  DecodeChar(f.offs, f.auxOffs, f.is21Bit, calls[c].arg, calls[c].n).panic
    /\ calls' = [calls EXCEPT ![c].pc = "panic"]
    /\ UNCHANGED << pc, encVars, decVars, frames >>

CallDecodeReturn(c) ==
    /\ calls[c].kind = "Decode"
    /\ calls[c].pc = "run"
    /\ calls[c].n >= Len(calls[c].arg)
    /\ calls' = [calls EXCEPT ![c].pc = "done"]
    /\ UNCHANGED << pc, encVars, decVars, frames >>

NextConcurrent ==
    \E c \in CallIds :
        \/ CallEncodeLoop(c)
        \/ CallEncodeReturn(c)
        \/ CallDecodeLoop(c)
        \/ CallDecodePanic(c)
        \/ CallDecodeReturn(c)

SpecConcurrent == InitConcurrent /\ [][NextConcurrent]_vars

(***************************************************************************)
(* Properties.                                                             *)
(***************************************************************************)
IsPrefix(p, q) == Len(p) <= Len(q) /\ SubSeq(q, 1, Len(p)) = p

AllIn(s, S) == \A k \in 1..Len(s) : s[k] \in S

HelloWorld == << 72, 101, 108, 108, 111, 32, 87, 111, 114, 108, 100, 33 >>

\* A-Z, a-z, 0-9 and space
RemapChars == (65..90) \cup (97..122) \cup (48..57) \cup {32}

\* the documented byte of each of them: A..Z from 0xC0, a..z from 0xDA,
\* 0..9 from 0xF4, space 0xFE
LatinRemap(cp) ==
    IF cp \in 65..90 THEN 192 + (cp - 65)
    ELSE IF cp \in 97..122 THEN 218 + (cp - 97)
    ELSE IF cp \in 48..57 THEN 244 + (cp - 48)
    ELSE 254

EncoderInInitialState == offs = 0 /\ auxOffs = offsInitAux /\ is21Bit = FALSE

\* the iteration for cp in the current state appends bs and changes no state
EmitsUnchanged(cp, bs) ==
    LET r == EncodeChar(offs, auxOffs, is21Bit, cp)
    IN  /\ r.bytes = bs
        /\ r.offs = offs
        /\ r.auxOffs = auxOffs
        /\ r.is21Bit = is21Bit

\* C1: round-trip: Decode returns, and returns the string that was encoded.
\* Refuted: Encode of U+2000 is B1 00, which Decode reads as U+2100.
C1_RoundTrip == pc \in {"done", "panic"} => (pc = "done" /\ out = str)

\* C2: an all-ASCII string is encoded as its own bytes, one BASE byte per
\* character, and the encoder stays in its initial state throughout.
C2_AsciiCompat ==
    AllIn(str, 0..127) =>
        /\ buf = SubSeq(str, 1, pos - 1)
        /\ EncoderInInitialState
        /\ variant \in {"NONE", "BASE"}
        /\ pos = 1 => \A cp \in 0..127 : EmitsUnchanged(cp, << cp >>)

C2_Witness == pc = "Decode" /\ str = HelloWorld /\ buf = HelloWorld

\* C3: a string of codepoints in U+0000..U+007F and U+00C0..U+00FF is
\* encoded as one byte per codepoint, equal to the codepoint, and the encoder
\* state never changes.
C3_Latin1Compat ==
    AllIn(str, (0..127) \cup (192..255)) =>
        /\ buf = SubSeq(str, 1, pos - 1)
        /\ EncoderInInitialState
        /\ pos = 1 => \A cp \in (0..127) \cup (192..255) : EmitsUnchanged(cp, << cp >>)

C3_Witness == pc = "Decode" /\ str = << 97, 233 >> /\ buf = << 97, 233 >>

\* C4 as stated: text of A-Z, a-z, 0-9 and space is encoded, from the
\* start of a call, as bytes in 0xC0..0xFF only ("A" as C0, "z" as F3, " " as
\* FE), and "Hello World!" as C7 DE E5 E5 E8 FE D6 E8 EB E5 E3 21.
\* Refuted: a call starts with auxOffs = 0x00C0 and Encode("A") is 41.
C4_LatinRemapFromStart ==
    pc # "Encode" =>
        /\ AllIn(str, RemapChars) => AllIn(buf, 192..255)
        /\ str = << 65 >> => buf = << 192 >>
        /\ str = << 122 >> => buf = << 243 >>
        /\ str = << 32 >> => buf = << 254 >>
        /\ str = HelloWorld =>
               buf = << 199, 222, 229, 229, 232, 254, 214, 232, 235, 229, 227, 33 >>

\* C4 amended: the remap bytes are emitted only while auxOffs = 0: there
\* each of A-Z, a-z, 0-9 and space is emitted as its one documented byte in
\* 0xC0..0xFE with no state change; in the initial state of a call the same
\* characters are emitted as their ASCII bytes, so "Hello World!" is encoded
\* as its twelve ASCII bytes.
C4_LatinRemapWhenAuxLatin ==
    /\ [][(pc = "Encode" /\ pos <= Len(str) /\ str[pos] \in RemapChars) =>
            /\ auxOffs = 0 =>
                   /\ buf' = Append(buf, LatinRemap(str[pos]))
                   /\ LatinRemap(str[pos]) \in 192..254
                   /\ UNCHANGED << offs, auxOffs, is21Bit >>
            /\ EncoderInInitialState =>
                   /\ buf' = Append(buf, str[pos])
                   /\ UNCHANGED << offs, auxOffs, is21Bit >>]_vars
    /\ [](pc = "Encode" /\ auxOffs = 0 =>
              \A cp \in RemapChars : EmitsUnchanged(cp, << LatinRemap(cp) >>))
    /\ [](pc = "Encode" /\ pos = 1 =>
              \A cp \in RemapChars : EmitsUnchanged(cp, << cp >>))
    /\ [](pc # "Encode" /\ str = HelloWorld => buf = HelloWorld)

C4_Witness ==
    /\ pc = "Decode"
    /\ str = << 1055, 65, 90, 97, 122, 48, 57, 32 >>
    /\ buf = << 132, 31, 192, 217, 218, 243, 244, 253, 254 >>

\* C5: the leading byte of a three-byte SHIFT21 sequence is never in
\* 0xB0..0xBF, so the decoder never takes it for EXTRA.
\* Refuted: Encode of U+102800 is B0 00 00, and Decode reads B0 00 as EXTRA.
C5_Shift21LeadNotExtra ==
    (pc = "Encode" /\ variant = "SHIFT21") => buf[Len(buf) - 2] \notin 176..191

\* C6: after k codepoints the buffer holds between k and 3k bytes, so
\* n <= |Encode(s)| <= 3n.
C6_SizeBound ==
    /\ pos - 1 <= Len(buf)
    /\ Len(buf) <= 3 * (pos - 1)
    /\ pc # "Encode" => (Len(str) <= Len(buf) /\ Len(buf) <= 3 * Len(str))

C6_Witness == pc = "Decode" /\ Len(str) = 2 /\ Len(buf) = 6

\* C7: the encoding of every prefix of the input is a prefix of the bytes
\* emitted so far: no iteration changes or removes a byte already emitted.
\* (Stated of Encode's buffer until Decode starts to read it; Decode never
\* writes it.)
C7_AppendOnly ==
    i = 0 => \A k \in 0..(pos - 1) : IsPrefix(Encode(SubSeq(str, 1, k)), buf)

C7_Witness ==
    /\ pos = 3
    /\ variant = "SHIFT21"
    /\ Len(buf) = 5
    /\ SubSeq(buf, 1, 2) = Encode(<< str[1] >>)

\* C8: the output of Encode never holds three consecutive bytes BF BF BF.
\* Refuted: Encode of U+E7BF U+1F960 is A0 BF BF, BF 00.
C8_NoResyncMarker ==
    \A k \in 1..(Len(buf) - 2) : ~(buf[k] = 191 /\ buf[k + 1] = 191 /\ buf[k + 2] = 191)

\* the continuation bytes of the framing table: AUX none, EXTRA one,
\* SHIFT21 two, SHIFT13 one, BASE one in 21-bit mode and none otherwise
RequiredContinuation(lead, m) ==
    IF lead \in 192..255 THEN 0
    ELSE IF lead \in 176..191 THEN 1
    ELSE IF lead \in 160..175 THEN 2
    ELSE IF lead \in 128..159 THEN 1
    ELSE IF m THEN 1
    ELSE 0

Truncated ==
    /\ pc = "Decode"
    /\ i < Len(buf)
    /\ Len(buf) - (i + 1) < RequiredContinuation(buf[i + 1], dIs21Bit)

\* C9: when the last leading byte is followed by fewer continuation bytes
\* than its variant requires, Decode fails: the iteration ends in the panic
\* state, appends nothing, and the call never returns.
C9_TruncatedFails ==
    /\ [][Truncated => (pc' = "panic" /\ out' = out)]_vars
    /\ [][pc = "panic" => pc' = "panic"]_vars

C9_Witness == pc = "panic" /\ buf = << 160, 0, 0, 0 >> /\ i = 3 /\ dIs21Bit

\* C10: Decode fails whenever decodeRanges answers -1: for an EXTRA index
\* at or above 0xEA0, and for the byte 0xFF read while auxOffs = 0.
\* Refuted: Decode of BF FF appends U+FFFD and returns.
C10_InvalidIndexFails == dCp = -1 => pc = "panic"

\* C11: decoding what Encode produced yields only Unicode scalar values:
\* every value an iteration of Decode computes lies in 0..0x10FFFF, so
\* decodeRanges never answers -1 on such bytes.
\* Refuted: Encode of U+1F960 is BF 00, which Decode reads as the EXTRA
\* index 0xF00, beyond the last range: decodeRanges answers -1.
C11_DecodedAreScalars == pc \in {"Decode", "done"} => dCp \in 0..1114111

\* the bytes of SHIFT13 as the format describes them
Shift13Of(cp) == << 128 + (cp \div 256), cp % 256 >>

\* the 128-codepoint block of cp
BlockOf(cp) == cp - (cp % 128)

Privet == << 1055, 1088, 1080, 1074, 1077, 1090 >>

\* C12: from the initial state a codepoint in U+0300..U+1FFF is emitted as
\* the two bytes of SHIFT13 and sets offs to its 128-block (auxOffs becomes
\* 0); in the state this leaves, every codepoint of that block is the single
\* BASE byte cp & 0x7F and changes no state.  Encode of U+041F U+0440 U+0438
\* U+0432 U+0435 U+0442 is 84 1F 40 38 32 35 42 and ends with offs = 0x0400.
C12_CyrillicWindow ==
    /\ (pc = "Encode" /\ pos = 1 /\ str = << >>) =>
           \A cp \in 768..8191 :
               LET r == EncodeChar(offs, auxOffs, is21Bit, cp)
               IN  /\ r.variant = "SHIFT13"
                   /\ r.bytes = Shift13Of(cp)
                   /\ r.offs = BlockOf(cp)
                   /\ r.auxOffs = 0
                   /\ ~r.is21Bit
                   /\ \A k \in 0..127 :
                          LET q == EncodeChar(r.offs, r.auxOffs, r.is21Bit, r.offs + k)
                          IN  /\ q.variant = "BASE"
                              /\ q.bytes = << k >>
                              /\ q.offs = r.offs
                              /\ q.auxOffs = r.auxOffs
                              /\ ~q.is21Bit
    /\ (pos >= 2 /\ str[1] \in 768..8191) =>
           /\ SubSeq(buf, 1, 2) = Shift13Of(str[1])
           /\ pos = 2 => (variant = "SHIFT13" /\ offs = BlockOf(str[1]))
           /\ (pos = 3 /\ BlockOf(str[2]) = BlockOf(str[1])) =>
                  (variant = "BASE" /\ buf = Shift13Of(str[1]) \o << str[2] % 128 >>
                                    /\ offs = BlockOf(str[1]))
    /\ (str = Privet /\ pc # "Encode") =>
           (buf = << 132, 31, 64, 56, 50, 53, 66 >> /\ offs = 1024)

C12_Witness ==
    /\ pc = "Decode"
    /\ str = Privet
    /\ buf = << 132, 31, 64, 56, 50, 53, 66 >>
    /\ offs = 1024
    /\ variant = "BASE"

\* Hiragana and Katakana, U+3000..U+30FF
HK == 12288..12543

Konnichiwa == << 12371, 12435, 12395, 12385, 12399 >>

\* the two bytes of EXTRA for a codepoint of HK, the second of the extra
\* ranges: its index is 0x800 + (cp - 0x3000)
ExtraHKOf(cp) ==
    LET idx == 2048 + (cp - 12288)
    IN  << 176 + 1 + (idx \div 256), idx % 256 >>

\* cp is one of the 64 codepoints of the current auxiliary alphabet
InAux(cp) == auxOffs # 0 /\ auxOffs <= cp /\ cp <= auxOffs + 63

\* C13 as stated: in an input of Hiragana and Katakana only, the first
\* codepoint is a two-byte EXTRA that sets offs to 0x3000 and every later
\* one is a one-byte BASE character, so that U+3053 U+3093 U+306B U+3061
\* U+306F costs 2+1+1+1+1 bytes.
\* Refuted: U+3093 lies in the block 0x3080, not in the block 0x3000 of
\* U+3053, and is a second two-byte EXTRA.
C13_HiraganaOneWindow ==
    /\ (Len(str) >= 1 /\ AllIn(str, HK) /\ pos >= 2) =>
           /\ Len(buf) = pos
           /\ pos = 2 => (variant = "EXTRAHK" /\ offs = 12288)
           /\ pos > 2 => variant = "BASE"
    /\ (str = Konnichiwa /\ pc # "Encode") => Len(buf) = 6

\* C13, amended: in an input of Hiragana and Katakana only, the first
\* codepoint is a two-byte EXTRA that sets offs to its 128-block (0x3000 or
\* 0x3080) and auxOffs to 0; a later codepoint is one BASE byte when it lies
\* in the current block, one AUX byte when it lies in the auxiliary
\* alphabet, and otherwise another two-byte EXTRA that moves offs to its
\* block.  U+3053 U+3093 U+306B U+3061 U+306F is B9 53 B9 93 EB E1 EF:
\* 2+2+1+1+1 bytes.
C13_HiraganaWindows ==
    /\ []((Len(str) >= 1 /\ AllIn(str, HK) /\ pos >= 2) =>
              /\ SubSeq(buf, 1, 2) = ExtraHKOf(str[1])
              /\ pos = 2 => /\ variant = "EXTRAHK"
                            /\ offs = BlockOf(str[1])
                            /\ auxOffs = 0
                            /\ ~is21Bit)
    /\ [][(pc = "Encode" /\ AllIn(str, HK) /\ 2 <= pos /\ pos <= Len(str)) =>
              LET cp == str[pos]
              IN  IF InAux(cp)
                  THEN /\ variant' = "AUX"
                       /\ buf' = Append(buf, 192 + (cp - auxOffs))
                       /\ UNCHANGED << offs, auxOffs, is21Bit >>
                  ELSE IF BlockOf(cp) = offs
                  THEN /\ variant' = "BASE"
                       /\ buf' = Append(buf, cp % 128)
                       /\ UNCHANGED << offs, auxOffs, is21Bit >>
                  ELSE /\ variant' = "EXTRAHK"
                       /\ buf' = buf \o ExtraHKOf(cp)
                       /\ offs' = BlockOf(cp)
                       /\ ~is21Bit']_vars
    /\ []((str = Konnichiwa /\ pc # "Encode") =>
              buf = << 185, 83, 185, 147, 235, 225, 239 >>)

C13_Witness ==
    /\ pc = "Decode"
    /\ str = Konnichiwa
    /\ buf = << 185, 83, 185, 147, 235, 225, 239 >>
    /\ offs = 12416
    /\ variant = "AUX"

\* C14 as stated: encoding U+10000 from the initial state emits one
\* three-byte SHIFT21 and leaves is21Bit = true and offs = 0xD800.
\* Refuted: (0x10000 - 0x2800) & 0xFFFF8000 is 0x8000.
C14_Shift21OffsD800 ==
    (pos = 2 /\ str[1] = 65536) =>
        (Len(buf) = 3 /\ variant = "SHIFT21" /\ is21Bit /\ offs = 55296)

\* C14, amended: encoding U+10000 from the initial state emits the one
\* three-byte SHIFT21 sequence A0 D8 00 and leaves is21Bit = true, offs =
\* (0x10000 - 0x2800) & 0xFFFF8000 = 0x8000 and auxOffs = 0.
C14_Shift21Scenario ==
    /\ (pos >= 2 /\ str[1] = 65536) =>
           /\ SubSeq(buf, 1, 3) = << 160, 216, 0 >>
           /\ pos = 2 => /\ Len(buf) = 3
                         /\ variant = "SHIFT21"
                         /\ is21Bit
                         /\ offs = 32768
                         /\ auxOffs = 0
    /\ (str = << 65536 >> /\ pc # "Encode") =>
           (buf = << 160, 216, 0 >> /\ is21Bit /\ offs = 32768)

C14_Witness ==
    /\ pc = "Decode"
    /\ str = << 65536 >>
    /\ buf = << 160, 216, 0 >>
    /\ is21Bit
    /\ offs = 32768

\* C15 as stated: Encode of U+0061 U+00E9 emits 'a' as the AUX-Latin byte
\* 0xEA and U+00E9 as the SHIFT13 sequence 80 E9, ending with offs = 0 and
\* auxOffs = 0xC0.
\* Refuted: the bytes are 61 E9.
C15_ExtendedLatinShift ==
    (str = << 97, 233 >> /\ pc # "Encode") =>
        (buf = << 234, 128, 233 >> /\ offs = 0 /\ auxOffs = 192)

\* C15, amended: Encode of U+0061 U+00E9 from the initial state emits 'a'
\* as the single BASE byte 0x61 and U+00E9 as the single AUX byte 0xE9, and
\* the state stays offs = 0, auxOffs = 0xC0, is21Bit = false throughout.
C15_ExtendedLatinScenario ==
    str = << 97, 233 >> =>
        /\ EncoderInInitialState
        /\ pos = 2 => (buf = << 97 >> /\ variant = "BASE")
        /\ pos = 3 => (buf = << 97, 233 >> /\ variant = "AUX")

C15_Witness ==
    /\ str = << 97, 233 >>
    /\ pos = 3
    /\ variant = "AUX"
    /\ buf = << 97, 233 >>
    /\ auxOffs = 192

\* the Cyrillic block U+0400..U+047F
Cyrillic == 1024..1151

AsciiLetters == (65..90) \cup (97..122)

\* C16 as stated: an ASCII letter that follows a Cyrillic letter is emitted
\* as a two-byte SHIFT13 back to the Latin window, never as one AUX-Latin
\* byte.
\* Refuted: Encode of U+041F 'A' is 84 1F C0; the 'A' is the AUX-Latin byte.
C16_NoAuxLatinReentry ==
    (pos >= 3 /\ str[pos - 2] \in Cyrillic /\ str[pos - 1] \in AsciiLetters) =>
        variant = "SHIFT13"

\* C16, amended: an ASCII letter that follows a Cyrillic letter is one
\* AUX-Latin byte whenever auxOffs = 0, as it is right after the first
\* switch away from the Latin window; with auxOffs # 0 it is one BASE byte
\* when offs = 0 and is21Bit is false, and otherwise a two-byte SHIFT13 back
\* to the Latin window.  (auxOffs can be non-zero and later 0 again in one
\* call: U+041F '!' U+0400 'A' ends with the AUX-Latin byte C0.)
C16_LatinAfterCyrillic ==
    [][(/\ pc = "Encode"
        /\ 2 <= pos
        /\ pos <= Len(str)
        /\ str[pos - 1] \in Cyrillic
        /\ str[pos] \in AsciiLetters) =>
           LET cp == str[pos]
           IN  IF auxOffs = 0
               THEN /\ variant' = "AUXLATIN"
                    /\ buf' = Append(buf, LatinRemap(cp))
                    /\ UNCHANGED << offs, auxOffs, is21Bit >>
               ELSE IF offs = 0 /\ ~is21Bit
               THEN /\ variant' = "BASE"
                    /\ buf' = Append(buf, cp)
                    /\ UNCHANGED << offs, auxOffs, is21Bit >>
               ELSE /\ variant' = "SHIFT13"
                    /\ buf' = buf \o << 128, cp >>
                    /\ offs' = 0
                    /\ ~is21Bit']_vars

C16_Witness ==
    /\ str = << 1055, 33, 1024, 65 >>
    /\ pos = 5
    /\ variant = "AUXLATIN"
    /\ auxOffs = 0
    /\ buf = << 132, 31, 128, 33, 132, 0, 192 >>

\* the variants that change the state of the encoder
Switching == {"SHIFT13", "SHIFT21", "EXTRAHK"}

EncodeStep == pc = "Encode" /\ pos <= Len(str)

\* C17: a SHIFT13, SHIFT21 or Hiragana/Katakana EXTRA emitted while offs = 0
\* sets auxOffs to 0; no other iteration changes the state; and while
\* auxOffs = 0 each of A-Z, a-z, 0-9 and space is exactly one byte in
\* 0xC0..0xFE, with no state change.
C17_LatinBecomesAux ==
    /\ [][(EncodeStep /\ offs = 0 /\ variant' \in Switching) => auxOffs' = 0]_vars
    /\ [][(EncodeStep /\ variant' \notin Switching) =>
              UNCHANGED << offs, auxOffs, is21Bit >>]_vars
    /\ [][(EncodeStep /\ auxOffs = 0 /\ str[pos] \in RemapChars) =>
              /\ variant' = "AUXLATIN"
              /\ buf' = Append(buf, LatinRemap(str[pos]))
              /\ LatinRemap(str[pos]) \in 192..254
              /\ UNCHANGED << offs, auxOffs, is21Bit >>]_vars

C17_Witness ==
    /\ str = << 65536, 65 >>
    /\ pos = 3
    /\ variant = "AUXLATIN"
    /\ buf = << 160, 216, 0, 192 >>
    /\ auxOffs = 0
    /\ is21Bit

LatinSet == RemapChars \cup {45}

\* C19: whenever the auxiliary alphabet is Latin (auxOffs = 0), the Latin
\* remap is a bijection between the 64 indices 0..63 (the bytes 0xC0..0xFF)
\* and the 64 characters A-Z, a-z, 0-9, space, hyphen: encodeRanges maps
\* the set onto 0..63 and decodeRanges maps every index back into the set.
\* Refuted: the last range, {0x2D, 0x2C}, is empty: encodeRanges answers -1
\* for the hyphen and decodeRanges answers -1 for the index 63.
C19_LatinRemapBijection ==
    (pc = "Encode" /\ auxOffs = 0) =>
        /\ \A cp \in LatinSet : encodeRanges(cp, rangesLatin) \in 0..63
        /\ { encodeRanges(cp, rangesLatin) : cp \in LatinSet } = 0..63
        /\ \A v \in 0..63 : decodeRanges(v, rangesLatin) \in LatinSet

\* what call c has built so far is what the same call builds alone after
\* consuming as much of its argument
AsWhenAlone(c) ==
    LET k == calls[c]
    IN  IF k.kind = "Encode"
        THEN /\ k.pc \in {"run", "done"}
             /\ k.res = Encode(SubSeq(k.arg, 1, k.n))
             /\ k.pc = "done" => k.res = Encode(k.arg)
        ELSE LET d == Decode(k.arg)
                 p == Decode(SubSeq(k.arg, 1, k.n))
             IN  /\ ~p.panic /\ k.res = p.str
                 /\ k.pc = "done" => (~d.panic /\ k.res = d.str)
                 /\ k.pc = "panic" => d.panic

\* C20: calls are independent: every call starts from offs = 0, auxOffs =
\* 0xC0, is21Bit = false, and under every interleaving of the iterations of
\* concurrent calls each call builds, and returns, exactly what it builds
\* and returns when run alone (a Decode that panics alone panics, and only
\* then).
C20_CallsIndependent ==
    \A c \in CallIds :
        /\ calls[c].n = 0 => frames[StateSlot(c)] = InitialState
        /\ AsWhenAlone(c)

C20_Witness ==
    /\ calls[1].kind = "Encode" /\ calls[1].arg = << 1055, 65 >>
    /\ calls[1].n = 1 /\ calls[1].pc = "run"
    /\ calls[2].kind = "Decode" /\ calls[2].arg = << 160, 216, 0, 0, 0 >>
    /\ calls[2].n = 3 /\ calls[2].pc = "run"
    /\ frames[1] = [offs |-> 1024, auxOffs |-> 0, is21Bit |-> FALSE]
    /\ frames[2] = [offs |-> 32768, auxOffs |-> 0, is21Bit |-> TRUE]

\* C21: lock-step state: when Decode has run k iterations on the output of
\* Encode, it has read exactly the bytes Encode emitted for the first k
\* codepoints, and its offs, auxOffs and is21Bit are those of Encode after
\* these k codepoints; Decode never fails on such bytes.
\* Refuted: Encode of U+3053 is B9 53 and sets offs to 0x3000; Decode reads
\* B9 53 as the index 0x953, no Hiragana, and leaves offs at 0.
C21_LockStep ==
    /\ pc # "panic"
    /\ pc \in {"Decode", "done"} =>
           /\ Len(out) <= Len(str)
           /\ LET e == EncodeFold(EncodeInit, SubSeq(str, 1, Len(out)))
              IN  /\ i = Len(e.buf)
                  /\ dOffs = e.offs
                  /\ dAuxOffs = e.auxOffs
                  /\ dIs21Bit = e.is21Bit

\* C22: EXTRA inversion: when Encode has emitted a codepoint as the two
\* bytes of EXTRA, the EXTRA rule of Decode applied to these two bytes
\* yields that codepoint.
\* Refuted: Encode of U+2000 is B1 00; Decode strips B0, reads the index
\* 0x100 and yields U+2100.
C22_ExtraInversion ==
    (pc = "Encode" /\ variant \in {"EXTRA", "EXTRAHK"}) =>
        LET bs == SubSeq(buf, Len(buf) - 1, Len(buf))
        IN  DecodeChar(0, offsInitAux, FALSE, bs, 0).cp = str[pos - 1]

\* the union of the six extra ranges
ExtraSet ==
    (8192..10239) \cup (12288..12543) \cup (65024..65039)
        \cup (127344..127487) \cup (127744..128767) \cup (129280..129535)

\* C23: for every codepoint of the extra ranges encodeRanges answers an
\* index in 0..0xE9F (3744 values), the index shifted right by 8 lies in
\* 0..14, and the leading byte of EXTRA lies in 0xB1..0xBF.
C23_ExtraIndexFits ==
    /\ (pc = "Encode" /\ pos = 1 /\ str = << >>) =>
           /\ Cardinality(ExtraSet) = 3744
           /\ \A cp \in ExtraSet :
                  LET extra == encodeRanges(cp, rangesExtra)
                      bs == extraBytes(cp)
                  IN  /\ extra \in 0..3743
                      /\ extra \div 256 \in 0..14
                      /\ Len(bs) = 2
                      /\ bs[1] = 176 + 1 + (extra \div 256)
                      /\ bs[1] \in 177..191
                      /\ bs[2] = extra % 256
    /\ variant \in {"EXTRA", "EXTRAHK"} =>
           /\ str[pos - 1] \in ExtraSet
           /\ buf[Len(buf) - 1] \in 177..191

C23_Witness ==
    /\ pos = 2
    /\ str[1] = 129376
    /\ variant = "EXTRA"
    /\ buf = << 191, 0 >>

\* the high bits of cp under the mask of the mode m: cp without its low 7
\* bits in 13-bit mode, cp - 0x2800 without its low 15 bits in 21-bit mode
HighBits(cp, m) ==
    IF m THEN (cp - 10240) - ((cp - 10240) % 32768) ELSE cp - (cp % 128)

LatinProbes == {0, 10, 33, 45, 64, 91, 126, 127}

\* one-byte BASE characters of the encoder address U+0000..U+007F
EncoderWindowIsLatin ==
    \A cp \in LatinProbes :
        LET r == EncodeChar(offs, auxOffs, is21Bit, cp)
        IN  r.variant = "BASE" /\ r.bytes = << cp >>

\* one-byte BASE characters of the decoder address U+0000..U+007F
DecoderWindowIsLatin ==
    \A b \in LatinProbes :
        LET r == DecodeChar(dOffs, dAuxOffs, dIs21Bit, << b >>, 0)
        IN  ~r.panic /\ r.variant = "BASE" /\ r.cp = b /\ r.i = 1

\* C25 as stated: in every reachable encoder and decoder state, offs = 0 if
\* and only if the BASE window is the Latin window U+0000..U+007F.
\* Refuted: Encode of U+2800 is the SHIFT21 A0 00 00 and leaves offs = 0
\* with is21Bit = true: the window starts at U+2800.
C25_OffsZeroIffLatin ==
    /\ offs = 0 <=> EncoderWindowIsLatin
    /\ dOffs = 0 <=> DecoderWindowIsLatin

\* C25, amended: in every reachable encoder and decoder state, offs = 0 and
\* is21Bit = false hold together if and only if the BASE window is the
\* Latin window U+0000..U+007F; offs = 0 with is21Bit = true is the 21-bit
\* window that starts at U+2800.
C25_LatinWindow ==
    /\ (offs = 0 /\ ~is21Bit) <=> EncoderWindowIsLatin
    /\ (dOffs = 0 /\ ~dIs21Bit) <=> DecoderWindowIsLatin

C25_Witness ==
    /\ pos = 2
    /\ str[1] = 10240
    /\ variant = "SHIFT21"
    /\ buf = << 160, 0, 0 >>
    /\ offs = 0
    /\ is21Bit

\* the variant Encode takes for the k-th codepoint of s
VariantAt(s, k) ==
    LET e == EncodeFold(EncodeInit, SubSeq(s, 1, k - 1))
    IN  EncodeChar(e.offs, e.auxOffs, e.is21Bit, s[k]).variant

\* the most recent state-changing emission was a SHIFT21
LastSwitchIsShift21 ==
    \E k \in 1..(pos - 1) :
        /\ VariantAt(str, k) = "SHIFT21"
        /\ \A j \in (k + 1)..(pos - 1) : VariantAt(str, j) \notin Switching

\* C26: is21Bit is true if and only if the most recent state-changing
\* emission was a SHIFT21: a SHIFT21 sets it, a SHIFT13 and a
\* Hiragana/Katakana EXTRA reset it, and AUX, BASE and other EXTRA
\* emissions leave it as it was.
C26_ModeFlagHistory ==
    /\ [](pc = "Encode" => (is21Bit <=> LastSwitchIsShift21))
    /\ [][EncodeStep =>
              /\ variant' = "SHIFT21" => is21Bit'
              /\ variant' \in {"SHIFT13", "EXTRAHK"} => ~is21Bit'
              /\ variant' \in {"AUX", "AUXLATIN", "BASE", "BASE21", "EXTRA"} =>
                     is21Bit' = is21Bit]_vars

C26_Witness ==
    /\ str = << 65536, 128512 >>
    /\ pos = 3
    /\ variant = "EXTRA"
    /\ is21Bit

\* C27: in every reachable encoder state offs is a multiple of 0x80 when
\* is21Bit is false and a multiple of 0x8000 when is21Bit is true.
C27_OffsDomain ==
    /\ offs >= 0
    /\ ~is21Bit => offs % 128 = 0
    /\ is21Bit => offs % 32768 = 0

C27_Witness ==
    /\ pos = 2
    /\ str[1] = 1114111
    /\ variant = "SHIFT21"
    /\ is21Bit
    /\ offs = 1081344

\* the auxiliary alphabet a switch from the base alphabet o leaves behind:
\* the table value when o is one of its keys, o itself otherwise
AuxOf(o) == IF o \in auxOffsetKeys THEN auxOffset(o) ELSE o

\* C28: an AUX or AUX-Latin byte, a BASE emission (one byte in 13-bit mode,
\* two bytes in 21-bit mode) and an EXTRA sequence for a codepoint outside
\* U+3000..U+30FF leave offs, auxOffs and is21Bit unchanged.
C28_NonSwitchingFrame ==
    /\ [][(EncodeStep /\ variant' \in {"AUX", "AUXLATIN", "BASE", "BASE21", "EXTRA"}) =>
              /\ UNCHANGED << offs, auxOffs, is21Bit >>
              /\ Len(buf') - Len(buf) =
                     IF variant' \in {"BASE21", "EXTRA"} THEN 2 ELSE 1
              /\ variant' = "BASE" => ~is21Bit
              /\ variant' = "BASE21" => is21Bit]_vars
    /\ [][(EncodeStep /\ str[pos] \in ExtraSet \ HK) =>
              /\ variant' = "EXTRA"
              /\ Len(buf') = Len(buf) + 2
              /\ UNCHANGED << offs, auxOffs, is21Bit >>]_vars

C28_Witness ==
    /\ str = << 1055, 128512 >>
    /\ pos = 3
    /\ variant = "EXTRA"
    /\ offs = 1024
    /\ auxOffs = 0
    /\ ~is21Bit

C30_RangeHelpersInverse ==
    /\ (pc = "Encode" /\ pos = 1 /\ str = << >>) =>
           /\ \A cp \in ExtraSet :
                  decodeRanges(encodeRanges(cp, rangesExtra), rangesExtra) = cp
           /\ \A v \in 0..3743 :
                  /\ decodeRanges(v, rangesExtra) \in ExtraSet
                  /\ encodeRanges(decodeRanges(v, rangesExtra), rangesExtra) = v
           /\ \A cp \in 0..131071 :
                  (encodeRanges(cp, rangesExtra) = -1) <=> (cp \notin ExtraSet)
    /\ pos >= 2 =>
           LET cp == str[pos - 1]
               v == encodeRanges(cp, rangesExtra)
           IN  IF cp \in ExtraSet
               THEN v \in 0..3743 /\ decodeRanges(v, rangesExtra) = cp
               ELSE v = -1

C30_Witness ==
    /\ pos = 2
    /\ str[1] = 8192
    /\ variant = "EXTRA"
    /\ buf = << 177, 0 >>
    /\ decodeRanges(0, rangesExtra) = 8192

\* the variants the framing table gives a leading byte b in the mode m
FramingVariants(b, m) ==
    IF b \in 192..255 THEN {"AUX"}
    ELSE IF b \in 176..191 THEN {"EXTRA", "EXTRAHK"}
    ELSE IF b \in 160..175 THEN {"SHIFT21"}
    ELSE IF b \in 128..159 THEN {"SHIFT13"}
    ELSE IF m THEN {"BASE21"}
    ELSE {"BASE"}

InAuxAlphabet(cp) ==
    \/ auxOffs = 0 /\ cp \in RemapChars
    \/ auxOffs # 0 /\ auxOffs <= cp /\ cp <= auxOffs + 63

\* cp lies in the current 13-bit window
InWindow13(cp) == ~is21Bit /\ BlockOf(cp) = offs

Restricted(cp) == IsScalar(cp) /\ cp < 1058816 /\ cp \notin ExtraSet

\* C33: restricted round-trip: for every string whose codepoints are all
\* scalar values below U+102800 and outside the six extra ranges, Decode
\* returns, and returns the string that was encoded; at every point it has
\* rebuilt a prefix of that string.
C33_RestrictedRoundTrip ==
    (\A k \in 1..Len(str) : Restricted(str[k])) =>
        /\ pc # "panic"
        /\ IsPrefix(out, str)
        /\ pc = "done" => out = str

C33_Witness ==
    /\ pc = "done"
    /\ str = << 1055, 65, 90, 97, 122, 48, 57, 32 >>
    /\ out = str
    /\ buf = << 132, 31, 192, 217, 218, 243, 244, 253, 254 >>

\* C34: every codepoint that reaches the 13-bit fallback is below U+2000,
\* because U+2000..U+27FF are all emitted as EXTRA; the leading byte of
\* SHIFT13, 0x80 | (cp >> 8), is therefore always in 0x80..0x9F.
C34_Shift13LeadRange ==
    /\ []((pc = "Encode" /\ pos = 1 /\ str = << >>) =>
              /\ \A cp \in 0..8191 : shift13Bytes(cp)[1] \in 128..159
              /\ \A cp \in 8192..10239 :
                     EncodeChar(offs, auxOffs, is21Bit, cp).variant = "EXTRA")
    /\ [][(EncodeStep /\ variant' = "SHIFT13") =>
              /\ str[pos] < 8192
              /\ Len(buf') = Len(buf) + 2
              /\ buf'[Len(buf) + 1] \in 128..159
              /\ buf'[Len(buf) + 1] = 128 + (str[pos] \div 256)]_vars
    /\ [][(EncodeStep /\ str[pos] \in 8192..10239) => variant' = "EXTRA"]_vars

C34_Witness ==
    /\ pos = 2
    /\ str[1] = 8191
    /\ variant = "SHIFT13"
    /\ buf = << 159, 255 >>

C36_DecoderProgress ==
    /\ [][(pc = "Decode" /\ i < Len(buf) /\ pc' = "Decode") =>
              /\ i' - i \in 1..3
              /\ Len(out') = Len(out) + 1
              /\ SubSeq(out', 1, Len(out)) = out]_vars
    /\ [](Len(out) <= i /\ i <= Len(buf))
    /\ [](pc = "done" => i = Len(buf))
    /\ <>(pc \in {"done", "panic"})

C36_Witness ==
    /\ pc = "done"
    /\ buf = << 160, 65, 65 >>
    /\ i = 3
    /\ Len(out) = 1

====
